---- MODULE Spec2Model ----
(***************************************************************************)
(* A model of src/main.rs of the Mandelbrot image server: the escape-time  *)
(* test, the pair parser, the pixel-to-point mapping, render, and the      *)
(* request handler get_mandelbrot_image with its crossbeam scope of band   *)
(* tasks.                                                                  *)
(*                                                                         *)
(* f64 is modelled as a binary floating-point format of MantBits           *)
(* significant bits whose smallest unit is 2^-FracBits (gradual            *)
(* underflow); every arithmetic operation rounds its exact result to the   *)
(* nearest representable value, ties to even, as IEEE 754 does.  A float   *)
(* is held as the integer number of units of 2^-FracBits.                  *)
(***************************************************************************)
EXTENDS Integers, Sequences, FiniteSets, TLC

\* ------------------------------------------------------------------ bounds
MaxW == 2          \* widest raster
MaxH == 9          \* tallest raster the renders are compared on
MaxLowH == 3       \* tallest raster with one-row bands a request asks for
MaxLen == 4        \* longest string parse_pair is tried on exhaustively
MantBits == 5      \* significant bits of the modelled f64
FracBits == 6      \* the modelled f64's smallest unit is 2^-FracBits

\* ------------------------------------------------------- program constants
threads == 8
Limit == 255
U8Max == 255

VARIABLES
    \* get_mandelbrot_image
    query,         \* the request: whether its query string parses, and b, l, u
    pc,            \* where the handler is
    bounds,        \* (usize, usize): the raster (width, height)
    upper_left,    \* Complex<f64>
    lower_right,   \* Complex<f64>
    allocated,     \* whether `pixels` has been allocated
    pixels,        \* the Vec<u8> of the request; a cell holds its byte and, beside
                   \* it, what the escape test returned for that byte
    writes,        \* per offset of pixels, the tasks that assigned it, in order
    bands,         \* the slices chunks_mut hands out: [start, len]
    tasks,         \* the closures spawned so far, one per band, in spawn order
    encodes,       \* calls of encoder.encode
    response,      \* the status of the response returned, None before the return
    \* the renders compared: band after band, then one call over the whole raster
    rendered,      \* number of bands whose render call has returned
    serial,        \* the buffer of one render call over the full bounds and window
    serialDone,    \* whether that call has returned
    \* parse_pair
    s, separator, ty,   \* the arguments: the string, the separator, the type T
    parsed         \* None before the call, then Some of what the call did

hvars == <<query, pc, bounds, upper_left, lower_right, allocated, pixels, writes,
           bands, tasks, encodes, response>>
rvars == <<rendered, serial, serialDone>>
pvars == <<s, separator, ty, parsed>>
vars == <<hvars, rvars, pvars>>

\* ------------------------------------------------------------------ Option
None == <<>>
Some(x) == <<x>>

\* --------------------------------------------------------------------- f64
\* The arithmetic is written as functions, which take their arguments by
\* value.
One == 2 ^ FracBits

BitLen[n \in Nat] == IF n = 0 THEN 0 ELSE 1 + BitLen[n \div 2]

Abs(x) == IF x < 0 THEN -x ELSE x

\* The float nearest to num/den units (den > 0), ties to even.
RoundQ[num \in Int, den \in Nat] ==
    LET a  == Abs(num)
        bl == BitLen[a \div den]
        e  == IF bl > MantBits THEN bl - MantBits ELSE 0
        d  == den * (2 ^ e)
        q  == a \div d
        r  == a % d
        up == (2 * r > d) \/ (2 * r = d /\ q % 2 = 1)
        m  == IF up THEN q + 1 ELSE q
    IN  IF num < 0 THEN -(m * (2 ^ e)) ELSE m * (2 ^ e)

FAdd(a, b) == RoundQ[a + b, 1]
FSub(a, b) == RoundQ[a - b, 1]
FMul(a, b) == RoundQ[a * b, One]
\* b > 0 wherever the program divides (a raster dimension of at least 1)
FDiv(a, b) == RoundQ[a * One, b]
\* `n as f64`
AsF64(n) == RoundQ[n * One, 1]

Complex(re, im) == [re |-> re, im |-> im]
ComplexF64 == [re : Int, im : Int]

\* num::Complex: z * z + c and norm_sqr
CMulAdd[z \in ComplexF64, c \in ComplexF64] ==
    Complex(FAdd(FSub(FMul(z.re, z.re), FMul(z.im, z.im)), c.re),
            FAdd(FAdd(FMul(z.re, z.im), FMul(z.im, z.re)), c.im))

norm_sqr[z \in ComplexF64] == FAdd(FMul(z.re, z.re), FMul(z.im, z.im))

\* --------------------------------------------------- approx_mandelbrot_test
\* the state of the loop: i is the loop variable, ret the value returned so
\* far (None while the loop is still running)
LoopState == [z : ComplexF64, i : Nat, ret : Seq(Nat)]

\* what a pass of the loop body returns, once z has been assigned
EscapeTest[z \in ComplexF64, i \in Nat] ==
    [z |-> z, i |-> i + 1, ret |-> IF norm_sqr[z] > 4 * One THEN Some(i) ELSE None]

\* one pass of the loop body
EscapeStep[st \in LoopState, c \in ComplexF64] == EscapeTest[CMulAdd[st.z, c], st.i]

\* n further passes of `for i in 0..limit` from loop state st, stopping at the
\* return; the passes are run as two halves, which keeps the evaluation depth
\* logarithmic in n
EscapeLoop[st \in LoopState, c \in ComplexF64, n \in Nat] ==
    IF n = 0 \/ st.ret # None THEN st
    ELSE IF n = 1 THEN EscapeStep[st, c]
    ELSE EscapeLoop[EscapeLoop[st, c, n \div 2], c, n - n \div 2]

approx_mandelbrot_test[c \in ComplexF64, limit \in Nat] ==
    EscapeLoop[[z |-> Complex(0, 0), i |-> 0, ret |-> None], c, limit].ret

\* ----------------------------------------------------------- pixel_to_point
pixel_to_point[bnds \in Nat \X Nat, pixel \in Nat \X Nat, ul \in ComplexF64, lr \in ComplexF64] ==
    LET width  == FSub(lr.re, ul.re)
        height == FSub(ul.im, lr.im)
    IN  Complex(FAdd(ul.re, FDiv(FMul(AsF64(pixel[1]), width), AsF64(bnds[1]))),
                FSub(ul.im, FDiv(FMul(AsF64(pixel[2]), height), AsF64(bnds[2]))))

\* ------------------------------------------------------------------ render
\* `n as u8`
AsU8(n) == n % (U8Max + 1)

\* the match of render without the subtraction from 255
IntensityNotInverted(r) == IF r = None THEN 0 ELSE AsU8(r[1])

\* the match of render: None => 0, Some(n) => 255 - n as u8
Intensity(r) == IF r = None THEN 0 ELSE U8Max - AsU8(r[1])

\* the cell for what the escape test returned: its byte and, beside it, the
\* returned value itself
Cell[it \in Seq(Nat)] == [byte |-> Intensity(it), iter |-> it]

\* an offset that leaves the row stride out
PixelIndexNoStride(bnds, col, row) == row + col

\* the offset the loop body writes, within the slice it was given
PixelIndex(bnds, col, row) == row * bnds[1] + col

\* the (col, row) the loops visit k-th (k from 0): rows outside, columns inside
LoopCol(bnds, k) == k % bnds[1]
LoopRow(bnds, k) == k \div bnds[1]

\* the cell the k-th pass assigns
PassCell[k \in Nat, bnds \in Nat \X Nat, ul \in ComplexF64, lr \in ComplexF64] ==
    Cell[approx_mandelbrot_test[
             pixel_to_point[bnds, <<LoopCol(bnds, k), LoopRow(bnds, k)>>, ul, lr], Limit]]

\* the offset the k-th pass assigns, within the slice
PassIndex(k, bnds) == PixelIndex(bnds, LoopCol(bnds, k), LoopRow(bnds, k))

\* the k-th pass of the loops over slice px: px[row * bounds.0 + col] = ...;
\* an index outside the slice panics
RenderPass(px, k, bnds, ul, lr) ==
    IF PassIndex(k, bnds) >= Len(px) THEN [panic |-> TRUE, px |-> px]
    ELSE [panic |-> FALSE,
          px |-> [px EXCEPT ![PassIndex(k, bnds) + 1] = PassCell[k, bnds, ul, lr]]]

\* the loops of render from their k-th pass on
RECURSIVE RenderLoop(_, _, _, _, _)
RenderLoop(px, k, bnds, ul, lr) ==
    IF k >= bnds[1] * bnds[2] THEN [panic |-> FALSE, px |-> px]
    ELSE LET pass == RenderPass(px, k, bnds, ul, lr)
         IN  IF pass.panic THEN pass
             ELSE RenderLoop(pass.px, k + 1, bnds, ul, lr)

\* the assertion of render
RenderAssert(px, bnds) == Len(px) = bnds[1] * bnds[2]

\* The slice after a whole render call, each cell [byte, iter]; panic when the
\* assertion or an index check fails.
render(px, bnds, ul, lr) ==
    IF ~RenderAssert(px, bnds) THEN [panic |-> TRUE, px |-> px]
    ELSE RenderLoop(px, 0, bnds, ul, lr)

\* --------------------------------------------- get_mandelbrot_image: bands
rows_per_band(bnds) == bnds[2] \div threads + 1

Min(a, b) == IF a < b THEN a ELSE b

\* chunks_exact_mut in place of chunks_mut: the short last chunk is left out
ChunksExact(len, size) ==
    [i \in 1 .. len \div size |-> [start |-> (i - 1) * size, len |-> size]]

\* slice::chunks_mut(size) over a buffer of length len (size > 0)
ChunksMut(len, size) ==
    LET n == (len + size - 1) \div size
    IN  [i \in 1 .. n |-> [start |-> (i - 1) * size,
                           len   |-> Min(size, len - (i - 1) * size)]]

\* a band height that takes every band to be rows_per_band rows
BandHeightNominal(bnds, band) == rows_per_band(bnds)

\* the loop body of the scope for the i-th band (i from 0)
BandTop(bnds, i) == rows_per_band(bnds) * i
BandHeight(bnds, band) == band.len \div bnds[1]
BandBounds(bnds, band) == <<bnds[1], BandHeight(bnds, band)>>
BandUpperLeft(bnds, i, ul, lr) == pixel_to_point[bnds, <<0, BandTop(bnds, i)>>, ul, lr]
BandLowerRight(bnds, i, band, ul, lr) ==
    pixel_to_point[bnds, <<bnds[1], BandTop(bnds, i) + BandHeight(bnds, band)>>, ul, lr]

\* `&mut buf[start .. start + len]` and writing a slice back
Slice(buf, band) == SubSeq(buf, band.start + 1, band.start + band.len)
Splice(buf, band, px) ==
    [k \in 1 .. Len(buf) |->
        IF k > band.start /\ k <= band.start + band.len THEN px[k - band.start] ELSE buf[k]]

\* ------------------------------------------------------------ str, FromStr
\* A &str is the sequence of its chars; a char is held as a one-character
\* string, and EAcute stands for U+00E9, whose UTF-8 encoding takes two bytes.
EAcute == "U+00E9"
Utf8Len(c) == IF c = EAcute THEN 2 ELSE 1

Str == Seq(STRING)

ByteLen[str \in Str] == IF str = <<>> THEN 0 ELSE Utf8Len(Head(str)) + ByteLen[Tail(str)]

\* str::find(char): the byte index of the first match
Find[str \in Str, c \in STRING] ==
    IF \A k \in 1 .. Len(str) : str[k] # c THEN None
    ELSE LET k == CHOOSE j \in 1 .. Len(str) :
                      str[j] = c /\ \A i \in 1 .. j - 1 : str[i] # c
         IN  Some(ByteLen[SubSeq(str, 1, k - 1)])

\* str::is_char_boundary
IsCharBoundary(str, b) == \E k \in 0 .. Len(str) : ByteLen[SubSeq(str, 1, k)] = b

\* the number of chars that end at or before byte index b
CharsTo(str, b) == Cardinality({k \in 1 .. Len(str) : ByteLen[SubSeq(str, 1, k)] <= b})

\* &s[..b] and &s[b..]; indexing off a char boundary panics
SliceTo[str \in Str, b \in Nat] ==
    IF IsCharBoundary(str, b) THEN [panic |-> FALSE, str |-> SubSeq(str, 1, CharsTo(str, b))]
    ELSE [panic |-> TRUE, str |-> <<>>]
SliceFrom[str \in Str, b \in Nat] ==
    IF IsCharBoundary(str, b)
    THEN [panic |-> FALSE, str |-> SubSeq(str, CharsTo(str, b) + 1, Len(str))]
    ELSE [panic |-> TRUE, str |-> <<>>]

DigitChars == <<"0", "1", "2", "3", "4", "5", "6", "7", "8", "9">>
IsDigit(c) == \E d \in 1 .. 10 : DigitChars[d] = c
DigitVal(c) == (CHOOSE d \in 1 .. 10 : DigitChars[d] = c) - 1
AllDigits(str) == \A k \in 1 .. Len(str) : IsDigit(str[k])

DecVal[str \in Str] ==
    IF str = <<>> THEN 0
    ELSE 10 * DecVal[SubSeq(str, 1, Len(str) - 1)] + DigitVal(str[Len(str)])

\* <integer type>::from_str: an optional sign ('-' for a signed type only), then
\* one digit or more and nothing else.  (Overflow of the type is out of reach
\* of the strings tried.)
FromStrInt[str \in Str, signed \in BOOLEAN] ==
    LET hasSign == str # <<>> /\ (str[1] = "+" \/ (signed /\ str[1] = "-"))
        digits  == IF hasSign THEN Tail(str) ELSE str
    IN  IF digits = <<>> \/ ~AllDigits(digits) THEN None
        ELSE IF hasSign /\ str[1] = "-" THEN Some(-DecVal[digits])
        ELSE Some(DecVal[digits])

\* f64::from_str on decimal notation: an optional sign, digits with at most one
\* '.', one digit at least, and nothing else; the value is the float nearest to
\* the decimal.  (Exponents, "inf" and "NaN" are out of reach of the strings
\* tried.)
FromStrF64[str \in Str] ==
    LET hasSign == str # <<>> /\ (str[1] = "+" \/ str[1] = "-")
        body    == IF hasSign THEN Tail(str) ELSE str
        dots    == {k \in 1 .. Len(body) : body[k] = "."}
        dot     == IF dots = {} THEN Len(body) + 1 ELSE CHOOSE k \in dots : TRUE
        int     == SubSeq(body, 1, dot - 1)
        frac    == SubSeq(body, dot + 1, Len(body))
        mag     == RoundQ[DecVal[int \o frac] * One, 10 ^ Len(frac)]
    IN  IF Cardinality(dots) > 1 \/ int \o frac = <<>> \/ ~AllDigits(int \o frac) THEN None
        ELSE IF hasSign /\ str[1] = "-" THEN Some(-mag)
        ELSE Some(mag)

\* T::from_str for the types parse_pair is used at
FromStr(T, str) ==
    IF T = "f64" THEN FromStrF64[str] ELSE FromStrInt[str, T = "i32"]

\* what the match on the two from_str results yields
PairOf[l \in Seq(Int), r \in Seq(Int)] ==
    IF l # None /\ r # None THEN Some(<<l[1], r[1]>>) ELSE None

\* -------------------------------------------------------------- parse_pair
\* the match arm Some(index)
SplitAt[T \in STRING, str \in Str, index \in Nat] ==
    LET left  == SliceTo[str, index]
        right == SliceFrom[str, index + 1]
    IN  IF left.panic \/ right.panic THEN [panic |-> TRUE, val |-> None]
        ELSE [panic |-> FALSE, val |-> PairOf[FromStr(T, left.str), FromStr(T, right.str)]]

\* [panic, val]: val is what parse_pair returns when it returns
parse_pair[T \in STRING, str \in Str, sep \in STRING] ==
    IF Find[str, sep] = None THEN [panic |-> FALSE, val |-> None]
    ELSE SplitAt[T, str, Find[str, sep][1]]

\* ----------------------------------------------------------- parse_complex
\* what parse_pair::<f64> yields
PairResult == [panic : BOOLEAN, val : Seq(Int \X Int)]

\* the match of parse_complex
ComplexOf[pair \in PairResult] ==
    IF pair.val = None THEN pair
    ELSE [panic |-> FALSE, val |-> Some(Complex(pair.val[1][1], pair.val[1][2]))]

parse_complex[str \in Str] == ComplexOf[parse_pair["f64", str, ","]]

\* ---------------------------------------------------- get_mandelbrot_image
Blank == [byte |-> 0, iter |-> None]

\* the decimal notation of n < 100, for the b parameters tried
Dec(n) == IF n < 10 THEN <<DigitChars[n + 1]>>
          ELSE <<DigitChars[(n \div 10) + 1], DigitChars[(n % 10) + 1]>>

\* The heights requests ask for: up to MaxLowH, where every band is one row,
\* and the two heights from which bands have two rows, without and with a
\* shorter last band.
Heights == (0 .. MaxLowH) \cup {threads, threads + 1}

BValues == {None, Some(<<"1", "x">>)}
           \cup {Some(Dec(w) \o <<"x">> \o Dec(h)) : w \in 0 .. MaxW, h \in Heights}
LValues == {None, Some(<<",", "1">>), Some(<<"2", ",", "1">>)}
UValues == {None, Some(<<"1", ",">>), Some(<<"1", ",", "2">>)}

\* ok: whether the query string parses; b, l, u: the first value of each key
Requests ==
    {[ok |-> FALSE, b |-> None, l |-> None, u |-> None]}
    \cup {[ok |-> TRUE, b |-> bv, l |-> lv, u |-> uv] :
            bv \in BValues, lv \in LValues, uv \in UValues}

RenderIdle == rendered = 0 /\ serial = <<>> /\ serialDone = FALSE
ParseIdle == s = <<>> /\ separator = "," /\ ty = "i32" /\ parsed = None

Init ==
    /\ query \in Requests
    /\ pc = "query"
    /\ bounds = None
    /\ upper_left = None
    /\ lower_right = None
    /\ allocated = FALSE
    /\ pixels = <<>>
    /\ writes = <<>>
    /\ bands = <<>>
    /\ tasks = <<>>
    /\ encodes = 0
    /\ response = None
    /\ RenderIdle
    /\ ParseIdle

\* request.get_ref::<UrlEncodedQuery>()
GetQuery ==
    /\ pc = "query"
    /\ pc' = IF query.ok THEN "b" ELSE "returned"
    /\ response' = IF query.ok THEN response ELSE Some("BadRequest")
    /\ UNCHANGED <<query, bounds, upper_left, lower_right, allocated, pixels, writes,
                   bands, tasks, encodes, rvars, pvars>>

\* what a `match query_data.get(key)` yields from the key's value and the
\* parser's result on it: stop = "return" (BadRequest), "panic" or "go" with val
Param(value, result) ==
    IF value = None THEN [stop |-> "return", val |-> None]
    ELSE IF result.panic THEN [stop |-> "panic", val |-> None]
    ELSE IF result.val = None THEN [stop |-> "return", val |-> None]
    ELSE [stop |-> "go", val |-> result.val[1]]

BoundsParam ==
    Param(query.b, IF query.b = None THEN None ELSE parse_pair["usize", query.b[1], "x"])
LowerRightParam ==
    Param(query.l, IF query.l = None THEN None ELSE parse_complex[query.l[1]])
UpperLeftParam ==
    Param(query.u, IF query.u = None THEN None ELSE parse_complex[query.u[1]])

\* a match that goes on to the next parameter where it should return
AfterParamNoReturn(p, next) ==
    /\ pc' = IF p.stop = "panic" THEN "panicked" ELSE next
    /\ response' = response

\* the handler's position and response after a parameter's match
AfterParam(p, next) ==
    /\ pc' = IF p.stop = "go" THEN next
             ELSE IF p.stop = "panic" THEN "panicked" ELSE "returned"
    /\ response' = IF p.stop = "return" THEN Some("BadRequest") ELSE response

GetBounds ==
    /\ pc = "b"
    /\ AfterParam(BoundsParam, "l")
    /\ bounds' = IF BoundsParam.stop = "go" THEN BoundsParam.val ELSE bounds
    /\ UNCHANGED <<query, upper_left, lower_right, allocated, pixels, writes,
                   bands, tasks, encodes, rvars, pvars>>

GetLowerRight ==
    /\ pc = "l"
    /\ AfterParam(LowerRightParam, "u")
    /\ lower_right' = IF LowerRightParam.stop = "go" THEN LowerRightParam.val ELSE lower_right
    /\ UNCHANGED <<query, bounds, upper_left, allocated, pixels, writes,
                   bands, tasks, encodes, rvars, pvars>>

GetUpperLeft ==
    /\ pc = "u"
    /\ AfterParam(UpperLeftParam, "alloc")
    /\ upper_left' = IF UpperLeftParam.stop = "go" THEN UpperLeftParam.val ELSE upper_left
    /\ UNCHANGED <<query, bounds, lower_right, allocated, pixels, writes,
                   bands, tasks, encodes, rvars, pvars>>

\* let mut pixels = vec![0; bounds.0 * bounds.1]
Alloc ==
    /\ pc = "alloc"
    /\ pixels' = [k \in 1 .. bounds[1] * bounds[2] |-> Blank]
    /\ writes' = [k \in 1 .. bounds[1] * bounds[2] |-> <<>>]
    /\ allocated' = TRUE
    /\ pc' = "chunk"
    /\ UNCHANGED <<query, bounds, upper_left, lower_right, bands, tasks, encodes,
                   response, rvars, pvars>>

\* pixels.chunks_mut(rows_per_band * bounds.0).collect(); chunks_mut panics on
\* a chunk size of 0
ChunkSize == rows_per_band(bounds) * bounds[1]

Chunk ==
    /\ pc = "chunk"
    /\ pc' = IF ChunkSize = 0 THEN "panicked" ELSE "scope"
    /\ bands' = IF ChunkSize = 0 THEN bands ELSE ChunksMut(Len(pixels), ChunkSize)
    /\ UNCHANGED <<query, bounds, upper_left, lower_right, allocated, pixels, writes,
                   tasks, encodes, response, rvars, pvars>>

\* the closure the i-th pass of the spawn loop builds (i from 0)
Closure(i) ==
    LET band == bands[i + 1]
    IN  [state       |-> "spawned",
         band        |-> band,
         bounds      |-> BandBounds(bounds, band),
         upper_left  |-> BandUpperLeft(bounds, i, upper_left, lower_right),
         lower_right |-> BandLowerRight(bounds, i, band, upper_left, lower_right),
         k           |-> 0]

\* one pass of `for (i, band) in bands.into_iter().enumerate()`: spawner.spawn
Spawn ==
    /\ pc = "scope"
    /\ Len(tasks) < Len(bands)
    /\ tasks' = Append(tasks, Closure(Len(tasks)))
    /\ UNCHANGED <<query, pc, bounds, upper_left, lower_right, allocated, pixels,
                   writes, bands, encodes, response, rvars, pvars>>

\* passes of the loops a render call over n pixels makes
Passes(task) == task.bounds[1] * task.bounds[2]

\* One step of the thread of task t: on its first step it enters render (the
\* assertion, which reads only the thread's own slice), and every step makes
\* one pass of render's loops; the thread ends with the loops.
TaskStep(t) ==
    /\ t \in 1 .. Len(tasks)
    /\ tasks[t].state \in {"spawned", "running"}
    /\ LET task == tasks[t]
           px   == Slice(pixels, task.band)
           at   == task.band.start + PassIndex(task.k, task.bounds) + 1
       IN  \E pass \in {RenderPass(px, task.k, task.bounds, task.upper_left, task.lower_right)} :
           IF task.state = "spawned" /\ ~RenderAssert(px, task.bounds)
           THEN /\ tasks' = [tasks EXCEPT ![t].state = "panicked"]
                /\ UNCHANGED <<pixels, writes>>
           ELSE IF Passes(task) = 0
           THEN /\ tasks' = [tasks EXCEPT ![t].state = "done"]
                /\ UNCHANGED <<pixels, writes>>
           ELSE IF pass.panic
           THEN /\ tasks' = [tasks EXCEPT ![t].state = "panicked"]
                /\ UNCHANGED <<pixels, writes>>
           ELSE /\ pixels' = Splice(pixels, task.band, pass.px)
                /\ writes' = [writes EXCEPT ![at] = Append(@, t)]
                /\ tasks' = [tasks EXCEPT
                                ![t].k = task.k + 1,
                                ![t].state = IF task.k + 1 = Passes(task)
                                             THEN "done" ELSE "running"]
    /\ UNCHANGED <<query, pc, bounds, upper_left, lower_right, allocated, bands,
                   encodes, response, rvars, pvars>>

\* a scope that returns at the end of the spawn loop, joining nothing
JoinReadyNoJoin == Len(tasks) = Len(bands)

\* a scope that waits for `threads` threads, however many bands there are
JoinReadyAllThreads ==
    /\ Len(tasks) = threads
    /\ \A t \in 1 .. Len(tasks) : tasks[t].state \in {"done", "panicked"}

\* crossbeam::scope returns once the spawn loop is over and every thread
\* spawned in it has been joined
JoinReady ==
    /\ Len(tasks) = Len(bands)
    /\ \A t \in 1 .. Len(tasks) : tasks[t].state \in {"done", "panicked"}

\* the end of the scope; a panic of a spawned thread is passed on
Join ==
    /\ pc = "scope"
    /\ JoinReady
    /\ pc' = IF \E t \in 1 .. Len(tasks) : tasks[t].state = "panicked"
             THEN "panicked" ELSE "encode"
    /\ UNCHANGED <<query, bounds, upper_left, lower_right, allocated, pixels, writes,
                   bands, tasks, encodes, response, rvars, pvars>>

\* encoder.encode(&pixels, ...) and the response built from its result; the
\* codec is external, either result is possible
Encode ==
    /\ pc = "encode"
    /\ encodes' = encodes + 1
    /\ \E ok \in BOOLEAN :
          response' = Some(IF ok THEN "Ok" ELSE "InternalServerError")
    /\ pc' = "returned"
    /\ UNCHANGED <<query, bounds, upper_left, lower_right, allocated, pixels, writes,
                   bands, tasks, rvars, pvars>>

Next ==
    \/ GetQuery
    \/ GetBounds
    \/ GetLowerRight
    \/ GetUpperLeft
    \/ Alloc
    \/ Chunk
    \/ Spawn
    \/ \E t \in 1 .. threads : TaskStep(t)
    \/ Join
    \/ Encode

Spec == Init /\ [][Next]_vars

\* every thread that can run is eventually run
FairSpec == Spec /\ WF_vars(Next)

\* ------------------------------------------------ the render specification
\* The band renders of one request run one after the other, then one render
\* call over the whole raster, on rasters and windows drawn from bounded sets.
Windows ==
    {<<Complex(-2 * One, One), Complex(One, -One)>>,
     <<Complex(-2 * One, One), Complex(0, -2 * One)>>,
     <<Complex(-One, 0), Complex(One, -One)>>,
     <<Complex(One, One), Complex(One, One)>>}

HandlerAtScope ==
    /\ query = [ok |-> TRUE, b |-> None, l |-> None, u |-> None]
    /\ pc = "scope"
    /\ allocated = TRUE
    /\ writes = <<>>
    /\ tasks = <<>>
    /\ encodes = 0
    /\ response = None

InitRender ==
    /\ bounds \in (1 .. MaxW) \X (1 .. MaxH)
    /\ \E win \in Windows : upper_left = win[1] /\ lower_right = win[2]
    /\ pixels = [k \in 1 .. bounds[1] * bounds[2] |-> Blank]
    /\ bands = ChunksMut(Len(pixels), ChunkSize)
    /\ HandlerAtScope
    /\ rendered = 0
    /\ serial = [k \in 1 .. bounds[1] * bounds[2] |-> Blank]
    /\ serialDone = FALSE
    /\ ParseIdle

\* the render call of the next band's closure, run to its return
RenderBand ==
    /\ rendered < Len(bands)
    /\ LET task == Closure(rendered)
           out  == render(Slice(pixels, task.band), task.bounds,
                          task.upper_left, task.lower_right)
       IN  /\ ~out.panic
           /\ pixels' = Splice(pixels, task.band, out.px)
    /\ rendered' = rendered + 1
    /\ UNCHANGED <<query, pc, bounds, upper_left, lower_right, allocated, writes,
                   bands, tasks, encodes, response, serial, serialDone, pvars>>

\* one render call over the whole buffer with the full bounds and window
RenderSerial ==
    /\ rendered = Len(bands)
    /\ ~serialDone
    /\ LET out == render(serial, bounds, upper_left, lower_right)
       IN  /\ ~out.panic
           /\ serial' = out.px
    /\ serialDone' = TRUE
    /\ UNCHANGED <<hvars, rendered, pvars>>

NextRender == RenderBand \/ RenderSerial

SpecRender == InitRender /\ [][NextRender]_vars

\* ------------------------------------------------- the parse specification
\* parse_pair on every string of at most MaxLen chars of Alphabet and on the
\* strings of test_parse_pair and test_parse_complex.
Alphabet == {"0", "1", ".", "-", ",", EAcute}
Separators == {",", "x", EAcute}
Types == {"usize", "i32", "f64"}

Strings(n) == UNION {[1 .. k -> Alphabet] : k \in 0 .. n}

TestStrings ==
    {<<>>,
     <<"1", "0", ",">>,
     <<",", "1", "0">>,
     <<"1", "0", ",", "2", "0">>,
     <<"1", "0", ",", "2", "0", "x", "y">>,
     <<"0", ".", "5", "x">>,
     <<"0", ".", "5", "x", "1", ".", "5">>,
     <<"0", ".", "5", " ", "x", " ", "1", ".", "5">>,
     <<"1", ".", "2", "5", ",", "-", "0", ".", "0", "6", "2", "5">>,
     <<",", "-", "0", ".", "0", "6", "2", "5">>}

HandlerIdle ==
    /\ query = [ok |-> FALSE, b |-> None, l |-> None, u |-> None]
    /\ pc = "query"
    /\ bounds = None
    /\ upper_left = None
    /\ lower_right = None
    /\ allocated = FALSE
    /\ pixels = <<>>
    /\ writes = <<>>
    /\ bands = <<>>
    /\ tasks = <<>>
    /\ encodes = 0
    /\ response = None

InitParse ==
    /\ s \in Strings(MaxLen) \cup TestStrings
    /\ separator \in Separators
    /\ ty \in Types
    /\ parsed = None
    /\ HandlerIdle
    /\ RenderIdle

\* the call parse_pair::<ty>(s, separator)
ParsePair ==
    /\ parsed = None
    /\ parsed' = Some(parse_pair[ty, s, separator])
    /\ UNCHANGED <<hvars, rvars, s, separator, ty>>

NextParse == ParsePair

SpecParse == InitParse /\ [][NextParse]_vars

\* ================================================================== claims

\* the handler is past chunks_mut with its bands collected
Chunked == pc \in {"scope", "encode"} \/ (pc = "returned" /\ allocated)

\* the rows [first, first + height) of band i (from 1) of a raster of width w
BandRows(i, w, rpb) == {row \in 0 .. MaxH + threads :
                          row >= rpb * (i - 1) /\ row < rpb * (i - 1) + bands[i].len \div w}

\* C1: for w, h > 0 and rows_per_band = h / 8 + 1, the bands chunks_mut yields
\* partition the rows: band i starts at row rows_per_band * i and holds a whole
\* number of rows, every row of [0, h) is in exactly one band, every band but
\* the last has rows_per_band rows and the last has 1 .. rows_per_band rows.
C1_BandsPartitionRows ==
    (Chunked /\ bounds[1] > 0 /\ bounds[2] > 0) =>
        LET w   == bounds[1]
            h   == bounds[2]
            rpb == h \div 8 + 1
            n   == Len(bands)
        IN  /\ n >= 1
            /\ \A i \in 1 .. n :
                  /\ bands[i].start = rpb * (i - 1) * w
                  /\ bands[i].len % w = 0
            /\ \A i \in 1 .. n - 1 : bands[i].len \div w = rpb
            /\ bands[n].len \div w \in 1 .. rpb
            /\ \A row \in 0 .. h - 1 :
                  Cardinality({i \in 1 .. n : row \in BandRows(i, w, rpb)}) = 1
            /\ \A i \in 1 .. n : BandRows(i, w, rpb) \subseteq 0 .. h - 1

\* C1 witness: a raster of 9 rows chunked into four bands of 2 rows and one of 1
C1_Witness ==
    /\ pc = "scope"
    /\ bounds = <<2, 9>>
    /\ Len(bands) = 5
    /\ bands[5].len = 2

\* C2: whatever the interleaving, a task assigns only offsets of its own band,
\* no offset is assigned twice, and once the scope has returned every offset
\* of [0, w*h) has been assigned exactly once.
C2_DisjointWritesOnce ==
    /\ \A k \in 1 .. Len(writes) :
          /\ Len(writes[k]) <= 1
          /\ \A j \in 1 .. Len(writes[k]) :
                LET t == writes[k][j]
                IN  /\ k - 1 >= bands[t].start
                    /\ k - 1 < bands[t].start + bands[t].len
    /\ (pc = "encode" \/ (pc = "returned" /\ allocated)) =>
          /\ Len(writes) = bounds[1] * bounds[2]
          /\ \A k \in 1 .. Len(writes) : Len(writes[k]) = 1

\* C2 witness: two tasks are in the middle of their bands at the same time
C2_Witness ==
    /\ bounds = <<2, 9>>
    /\ \E t1, t2 \in 1 .. Len(tasks) :
          /\ t1 # t2
          /\ tasks[t1].state = "running" /\ tasks[t1].k = 3
          /\ tasks[t2].state = "running" /\ tasks[t2].k = 1

\* C3: the encoder reads the buffer only after every band task of the request
\* has completed: whenever encoding is about to start or has started, a task
\* has been spawned for every band and every task has returned.
C3_JoinBarrier ==
    (pc = "encode" \/ encodes > 0) =>
        /\ Len(tasks) = Len(bands)
        /\ \A t \in 1 .. Len(tasks) : tasks[t].state = "done"

\* C3 witness: the handler stands at the encoder with five finished tasks
C3_Witness ==
    /\ pc = "encode"
    /\ Len(tasks) = 5
    /\ \A t \in 1 .. 5 : tasks[t].state = "done" /\ tasks[t].k > 0

\* the query string and all of b, l, u are there and parse
ParamsOk ==
    /\ query.ok
    /\ query.b # None /\ parse_pair["usize", query.b[1], "x"].val # None
    /\ query.l # None /\ parse_pair["f64", query.l[1], ","].val # None
    /\ query.u # None /\ parse_pair["f64", query.u[1], ","].val # None

\* C4: when the query string or one of b, l, u is missing or fails to parse,
\* the handler returns 400 Bad Request and in that execution no buffer is
\* allocated, no task spawned and the encoder never called; a render is
\* attempted only after all three have parsed.
C4_BadParamsRejectedBeforeRender ==
    /\ ~ParamsOk =>
          /\ pc \in {"query", "b", "l", "u", "returned"}
          /\ pc = "returned" => response = Some("BadRequest")
          /\ ~allocated /\ tasks = <<>> /\ encodes = 0
    /\ (allocated \/ tasks # <<>> \/ encodes > 0 \/ pc \in {"alloc", "chunk", "scope", "encode"}) =>
          /\ ParamsOk
          /\ bounds # None /\ lower_right # None /\ upper_left # None
    /\ response = Some("BadRequest") => ~ParamsOk

\* C4 witness: b and l parse, u does not, and the handler has returned 400
C4_Witness ==
    /\ pc = "returned"
    /\ response = Some("BadRequest")
    /\ bounds # None /\ lower_right # None
    /\ query.u = Some(<<"1", ",">>)

\* C5: a b parameter of width 0 or height 0 is rejected with a client error at
\* validation; zero bounds never reach chunking, scheduling or the encoder and
\* never crash the handler.
C5_ZeroBoundsRejected ==
    (bounds # None /\ (bounds[1] = 0 \/ bounds[2] = 0)) =>
        /\ pc \notin {"chunk", "scope", "encode", "panicked"}
        /\ pc = "returned" => response = Some("BadRequest")

\* the bytes of a buffer
Bytes(buf) == [k \in 1 .. Len(buf) |-> buf[k].byte]

\* C6: for every raster, window and pixel, the byte the band task owning the
\* row writes equals the byte one render over the full bounds and window
\* writes at that offset.
C6_BandedEqualsSerial ==
    (rendered = Len(bands) /\ serialDone) => Bytes(pixels) = Bytes(serial)

\* C7: parse_pair(s, sep) returns a pair iff s contains sep and, split at the
\* first sep, the whole left part and the whole right part parse as T; the
\* pair is what they parse to; otherwise it returns None.
C7_ParsePairIff ==
    parsed # None =>
        LET res   == parsed[1]
            first == {k \in 1 .. Len(s) :
                        s[k] = separator /\ \A j \in 1 .. k - 1 : s[j] # separator}
            Left(k)  == FromStr(ty, SubSeq(s, 1, k - 1))
            Right(k) == FromStr(ty, SubSeq(s, k + 1, Len(s)))
            good  == \E k \in first : Left(k) # None /\ Right(k) # None
        IN  /\ ~res.panic
            /\ res.val # None <=> good
            /\ res.val # None =>
                  \E k \in first : res.val = Some(<<Left(k)[1], Right(k)[1]>>)

\* C7 on separators of one byte, where the claim holds
C7_OneByteSeparators == Utf8Len(separator) = 1 => C7_ParsePairIff

\* what test_parse_pair and test_parse_complex assert
TestsPass ==
    LET Is(T, str, sep, val) ==
            (parsed # None /\ ty = T /\ s = str /\ separator = sep) => parsed[1].val = val
    IN  /\ Is("i32", <<>>, ",", None)
        /\ Is("i32", <<"1", "0", ",">>, ",", None)
        /\ Is("i32", <<",", "1", "0">>, ",", None)
        /\ Is("i32", <<"1", "0", ",", "2", "0">>, ",", Some(<<10, 20>>))
        /\ Is("i32", <<"1", "0", ",", "2", "0", "x", "y">>, ",", None)
        /\ Is("f64", <<"0", ".", "5", "x">>, "x", None)
        /\ Is("f64", <<"0", ".", "5", "x", "1", ".", "5">>, "x",
              Some(<<One \div 2, One + One \div 2>>))
        /\ Is("f64", <<"0", ".", "5", " ", "x", " ", "1", ".", "5">>, "x", None)
        /\ Is("f64", <<"1", ".", "2", "5", ",", "-", "0", ".", "0", "6", "2", "5">>, ",",
              Some(<<One + One \div 4, -(One \div 16)>>))
        /\ Is("f64", <<",", "-", "0", ".", "0", "6", "2", "5">>, ",", None)

\* a cell holds 0 for no escape and 255 - i for an escape at i of 0 .. 254
CellOk(cell) ==
    IF cell.iter = None THEN cell.byte = 0
    ELSE LET i == cell.iter[1]
         IN  /\ i \in 0 .. 254
             /\ AsU8(i) = i
             /\ cell.byte = 255 - i
             /\ cell.byte \in 1 .. 255

\* C8: render writes 0 when the escape test with limit 255 reports no escape
\* and 255 - i when it reports the first escape at i; i lies in 0 .. 254, so
\* the conversion to u8 does not truncate, an escaped point gets 1 .. 255 and
\* a byte is 0 iff the point did not escape.
C8_IntensityOfEscape ==
    /\ \A k \in 1 .. Len(pixels) : CellOk(pixels[k])
    /\ \A k \in 1 .. Len(serial) : CellOk(serial[k])

\* C8 witness: a rendered raster with a point that never escaped, one that
\* escaped at once and one that escaped later
C8_Witness ==
    /\ rendered = Len(bands)
    /\ rendered > 1
    /\ \E k \in 1 .. Len(pixels) : pixels[k].iter = None
    /\ \E k \in 1 .. Len(pixels) : pixels[k].iter = Some(0) /\ pixels[k].byte = 255
    /\ \E k \in 1 .. Len(pixels) : pixels[k].iter # None /\ pixels[k].iter[1] > 2

\* C9: for w, h > 0 every render call the scheduler dispatches gets a slice of
\* band_bounds.0 * band_bounds.1 bytes, band_bounds = (w, band length / w)
\* with a height of at least 1, so neither the assertion nor an index check
\* fails in a band task.
C9_RenderPrecondition ==
    (bounds # None /\ bounds[1] > 0 /\ bounds[2] > 0) =>
        /\ pc # "panicked"
        /\ \A t \in 1 .. Len(tasks) :
              LET task == tasks[t]
              IN  /\ task.bounds = <<bounds[1], task.band.len \div bounds[1]>>
                  /\ task.band.len = task.bounds[1] * task.bounds[2]
                  /\ task.bounds[2] >= 1
                  /\ task.state # "panicked"
                  /\ task.k <= task.band.len

\* C9 witness: the task of a last band shorter than rows_per_band has returned
C9_Witness ==
    /\ bounds = <<2, 9>>
    /\ Len(tasks) = 5
    /\ tasks[5].state = "done"
    /\ tasks[5].bounds = <<2, 1>>
    /\ tasks[4].bounds = <<2, 2>>

\* C10: with every runnable thread eventually run, a request whose parameters
\* parse with w, h > 0 runs to completion: every band task returns, the scope
\* is left, the encoder is called once and the handler returns one response,
\* 200 or 500.
C10_RendersToCompletion ==
    /\ (pc = "alloc" /\ bounds[1] > 0 /\ bounds[2] > 0)
          ~> (/\ pc = "returned"
              /\ response \in {Some("Ok"), Some("InternalServerError")}
              /\ encodes = 1
              /\ Len(tasks) = Len(bands)
              /\ \A t \in 1 .. Len(tasks) : tasks[t].state = "done")
    /\ [](encodes <= 1)
    /\ [][response # None => response' = response]_vars

\* C10 witness: a request of five bands has been answered with the image
C10_Witness ==
    /\ pc = "returned"
    /\ response = Some("Ok")
    /\ encodes = 1
    /\ Len(tasks) = 5

====
